---- MODULE Spec2Model ----
(***************************************************************************)
(* LLMProcessor of final_bot.py: intent classification and reply           *)
(* generation with a remote call and a local keyword fallback, and the     *)
(* per-user conversation history bounded to the last 10 exchanges.         *)
(*                                                                         *)
(* A Python str is modelled as a tuple of one-character strings, so that   *)
(* lower(), strip(), replace() and the `in` substring test are computed    *)
(* character by character as the interpreter computes them.                *)
(***************************************************************************)
EXTENDS Integers, Sequences, FiniteSets, TLC

(* ---------------------------------------------------------------------- *)
(* Python str primitives                                                   *)
(* ---------------------------------------------------------------------- *)

EmptyStr == <<>>

UpperCase ==
    <<"A","B","C","D","E","F","G","H","I","J","K","L","M",
      "N","O","P","Q","R","S","T","U","V","W","X","Y","Z">>

LowerCase ==
    <<"a","b","c","d","e","f","g","h","i","j","k","l","m",
      "n","o","p","q","r","s","t","u","v","w","x","y","z">>

\* printable ASCII, code points 32..126, in code-point order; the double
\* quote, the backslash and the backtick are held by placeholders and occur
\* in no text of the model
AsciiTable ==
    <<" ","!","<quote>","#","$","%","&","'","(",")","*","+",",","-",".","/","0","1","2","3","4","5",
      "6","7","8","9",":",";","<","=",">","?","@","A","B","C","D","E","F","G","H","I","J","K",
      "L","M","N","O","P","Q","R","S","T","U","V","W","X","Y","Z","[","<backslash>","]","^","_","<backtick>","a",
      "b","c","d","e","f","g","h","i","j","k","l","m","n","o","p","q","r","s","t","u","v","w",
      "x","y","z","{","|","}","~">>

Whitespace == {" ", "\n", "\t", "\r"}

LowerChar(c) ==
    IF \E i \in 1..Len(UpperCase) : UpperCase[i] = c
    THEN LowerCase[CHOOSE i \in 1..Len(UpperCase) : UpperCase[i] = c]
    ELSE c

\* str.lower()
Lower(s) == [i \in 1..Len(s) |-> LowerChar(s[i])]

\* `w in s` for two str
Contains(s, w) ==
    \E i \in 0..(Len(s) - Len(w)) : SubSeq(s, i + 1, i + Len(w)) = w

\* any(word in m for word in words)
AnyIn(m, words) == \E w \in words : Contains(m, w)

\* str.strip()
Strip(s) ==
    LET keep == {i \in 1..Len(s) : s[i] \notin Whitespace}
    IN  IF keep = {} THEN EmptyStr
        ELSE LET lo == CHOOSE i \in keep : \A j \in keep : i <= j
                 hi == CHOOSE i \in keep : \A j \in keep : j <= i
             IN  SubSeq(s, lo, hi)

\* ord(c)
Ord(c) ==
    IF c = "\n" THEN 10
    ELSE IF c = "\t" THEN 9
    ELSE IF c = "\r" THEN 13
    ELSE 31 + (CHOOSE i \in 1..Len(AsciiTable) : AsciiTable[i] = c)

HashMultiplier == 31
HashModulus == 65536

RECURSIVE HashFold(_, _, _)
HashFold(h, s, i) ==
    IF i > Len(s) THEN h
    ELSE HashFold((h * HashMultiplier + Ord(s[i])) % HashModulus, s, i + 1)

\* hash(s): a keyed string hash, the key drawn once per process; the result
\* is a signed integer
PyHash(seed, s) ==
    LET h == HashFold(seed, s, 1)
    IN  IF h >= HashModulus \div 2 THEN h - HashModulus ELSE h

(* ---------------------------------------------------------------------- *)
(* Keyword lists and fixed reply lines                                     *)
(* ---------------------------------------------------------------------- *)

GreetingWords ==
    { <<"h","e","l","l","o">>,
      <<"h","i">>,
      <<"h","e","y">>,
      <<"g","o","o","d"," ","m","o","r","n","i","n","g">>,
      <<"g","o","o","d"," ","e","v","e","n","i","n","g">> }
HelpWords ==
    { <<"h","e","l","p">>,
      <<"h","o","w"," ","t","o">>,
      <<"w","h","a","t"," ","i","s">>,
      <<"e","x","p","l","a","i","n">> }
RequestWords ==
    { <<"p","l","e","a","s","e">>,
      <<"c","a","n"," ","y","o","u">>,
      <<"c","o","u","l","d"," ","y","o","u">>,
      <<"w","o","u","l","d"," ","y","o","u">> }
PositiveWords ==
    { <<"g","r","e","a","t">>,
      <<"g","o","o","d">>,
      <<"e","x","c","e","l","l","e","n","t">>,
      <<"l","o","v","e">>,
      <<"a","m","a","z","i","n","g">>,
      <<"h","a","p","p","y">> }
NegativeWords ==
    { <<"b","a","d">>,
      <<"t","e","r","r","i","b","l","e">>,
      <<"a","w","f","u","l">>,
      <<"h","a","t","e">>,
      <<"a","n","g","r","y">>,
      <<"f","r","u","s","t","r","a","t","e","d">> }
HelloWords ==
    { <<"h","e","l","l","o">>,
      <<"h","i">>,
      <<"h","e","y">> }
ThanksWords ==
    { <<"t","h","a","n","k","s">>,
      <<"t","h","a","n","k"," ","y","o","u">> }
ByeWords ==
    { <<"b","y","e">>,
      <<"g","o","o","d","b","y","e">>,
      <<"s","e","e"," ","y","o","u">> }

GreetingLine ==
    <<"H","e","l","l","o","!"," ","N","i","c","e"," ","t","o"," ","m","e","e","t"," ","y","o",
      "u","."," ","H","o","w"," ","c","a","n"," ","I"," ","h","e","l","p"," ","y","o","u"," ",
      "t","o","d","a","y","?">>
ThanksLine ==
    <<"Y","o","u","'","r","e"," ","w","e","l","c","o","m","e","!"," ","I","s"," ","t","h","e",
      "r","e"," ","a","n","y","t","h","i","n","g"," ","e","l","s","e"," ","I"," ","c","a","n",
      " ","h","e","l","p"," ","y","o","u"," ","w","i","t","h","?">>
FarewellLine ==
    <<"G","o","o","d","b","y","e","!"," ","F","e","e","l"," ","f","r","e","e"," ","t","o"," ",
      "m","e","s","s","a","g","e"," ","m","e"," ","a","n","y","t","i","m","e"," ","y","o","u",
      " ","n","e","e","d"," ","h","e","l","p",".">>
QuestionLine ==
    <<"T","h","a","t","'","s"," ","a"," ","g","r","e","a","t"," ","q","u","e","s","t","i","o",
      "n","!"," ","I","'","m"," ","h","e","r","e"," ","t","o"," ","h","e","l","p",","," ","t",
      "h","o","u","g","h"," ","m","y"," ","A","I"," ","f","e","a","t","u","r","e","s"," ","m",
      "i","g","h","t"," ","b","e"," ","l","i","m","i","t","e","d"," ","r","i","g","h","t"," ",
      "n","o","w",".">>
responses ==
    <<
      <<"I"," ","u","n","d","e","r","s","t","a","n","d","."," ","H","o","w"," ","c","a","n"," ",
        "I"," ","h","e","l","p"," ","y","o","u"," ","w","i","t","h"," ","t","h","a","t","?">>,
      <<"T","h","a","t","'","s"," ","i","n","t","e","r","e","s","t","i","n","g","!"," ","T","e",
        "l","l"," ","m","e"," ","m","o","r","e",".">>,
      <<"I","'","m"," ","h","e","r","e"," ","t","o"," ","h","e","l","p","."," ","W","h","a","t",
        " ","w","o","u","l","d"," ","y","o","u"," ","l","i","k","e"," ","t","o"," ","k","n","o",
        "w","?">>,
      <<"T","h","a","n","k","s"," ","f","o","r"," ","s","h","a","r","i","n","g"," ","t","h","a",
        "t"," ","w","i","t","h"," ","m","e",".">>,
      <<"I"," ","s","e","e","."," ","I","s"," ","t","h","e","r","e"," ","a","n","y","t","h","i",
        "n","g"," ","s","p","e","c","i","f","i","c"," ","y","o","u","'","d"," ","l","i","k","e",
        " ","a","s","s","i","s","t","a","n","c","e"," ","w","i","t","h","?">>
    >>

(* ---------------------------------------------------------------------- *)
(* Python values returned by analyze_intent                                *)
(* ---------------------------------------------------------------------- *)

NoMembers == [k \in {} |-> ""]

PyNone == [kind |-> "none", members |-> NoMembers]

PyDict(m) == [kind |-> "dict", members |-> m]

PyList == [kind |-> "list", members |-> NoMembers]

Intents == {"question", "request", "greeting", "chitchat", "help"}

Sentiments == {"positive", "neutral", "negative"}

Topics == {"general", "technical", "personal", "other"}

\* _fallback_analysis with the "?" test moved before the request keywords
fallback_intent_question_first(message) ==
    LET m == Lower(message)
    IN  IF AnyIn(m, GreetingWords) THEN "greeting"
        ELSE IF AnyIn(m, HelpWords) THEN "help"
        ELSE IF Contains(message, <<"?">>) THEN "question"
        ELSE IF AnyIn(m, RequestWords) THEN "request"
        ELSE "chitchat"

\* LLMProcessor._fallback_analysis
fallback_intent(message) ==
    LET m == Lower(message)
    IN  IF AnyIn(m, GreetingWords) THEN "greeting"
        ELSE IF AnyIn(m, HelpWords) THEN "help"
        ELSE IF AnyIn(m, RequestWords) THEN "request"
        ELSE IF Contains(message, <<"?">>) THEN "question"
        ELSE "chitchat"

fallback_sentiment(message) ==
    LET m == Lower(message)
    IN  IF AnyIn(m, PositiveWords) THEN "positive"
        ELSE IF AnyIn(m, NegativeWords) THEN "negative"
        ELSE "neutral"

fallback_analysis(message) ==
    PyDict([intent |-> fallback_intent(message),
            sentiment |-> fallback_sentiment(message),
            topic |-> "general"])

\* LLMProcessor._fallback_response
fallback_response(seed, message) ==
    LET m == Lower(message)
    IN  IF AnyIn(m, HelloWords) THEN GreetingLine
        ELSE IF AnyIn(m, ThanksWords) THEN ThanksLine
        ELSE IF AnyIn(m, ByeWords) THEN FarewellLine
        ELSE IF Contains(message, <<"?">>) THEN QuestionLine
        ELSE responses[(PyHash(seed, message) % Len(responses)) + 1]

(* ---------------------------------------------------------------------- *)
(* Bounds and input sets                                                   *)
(* ---------------------------------------------------------------------- *)

MaxCalls == 2
MaxWarnings == 1
MaxParts == 2
MaxPosts == 2
OfflineCalls == 12
LongCalls == 12
RaceCalls == 11

Tasks == {"t1", "t2"}

Users == {"u1", "u2"}

\* keys of the string hash, one drawn per process
Seeds == {0, 7}

\* values of datetime.now().isoformat()
Times == {"T1"}

Messages ==
    { <<"H","i","?">>,
      <<"o","k">> }

Contexts ==
    { EmptyStr,
      <<"I","n","t","e","n","t",":"," ","h","e","l","p">> }

\* texts of choices[0].message.content in the reply to the response call
ReplyContents ==
    { <<" ","O","k","\n">>,
      <<" ">>,
      EmptyStr }

(* ---------------------------------------------------------------------- *)
(* State                                                                   *)
(* ---------------------------------------------------------------------- *)

VARIABLES
    enabled,               \* LLMProcessor.enabled
    hashseed,              \* the process's string-hash key
    conversation_history,  \* LLMProcessor.conversation_history: user_id -> list of turns
    task,                  \* the coroutines in flight, one record per task; `path`
                           \* tells which return statement ended the call
    posts,                 \* number of session.post requests issued
    warnings,              \* number of logger.warning lines written
    escaped,               \* exceptions that left an LLMProcessor method
    calls,                 \* per user, generate_response calls made
    appended               \* per user, turns given to _update_history since the last clear

vars ==
    <<enabled, hashseed, conversation_history, task, posts, warnings, escaped,
      calls, appended>>

MAX_HISTORY == 10

IdleTask ==
    [pc |-> "idle", op |-> "none", user |-> "none", message |-> EmptyStr,
     context |-> EmptyStr, history |-> <<>>, path |-> "none",
     reply |-> EmptyStr, analysis |-> PyNone]

\* s[-n:]
LastN(s, n) == IF Len(s) <= n THEN s ELSE SubSeq(s, Len(s) - n + 1, Len(s))

\* self.conversation_history.get(user_id, [])
HistoryOf(h, user_id) == IF user_id \in DOMAIN h THEN h[user_id] ELSE <<>>

\* len(self.llm.conversation_history.get(user_id, []))
SizeOf(h, user_id) == Len(HistoryOf(h, user_id))

Turn(user_message, bot_response, now) ==
    [user |-> user_message, bot |-> bot_response, timestamp |-> now]

\* _update_history without the truncation of lines 166-167
update_history_unbounded(h, user_id, user_message, bot_response, now) ==
    LET created == IF user_id \in DOMAIN h THEN h[user_id] ELSE <<>>
        grown == Append(created, Turn(user_message, bot_response, now))
    IN  [u \in DOMAIN h \cup {user_id} |-> IF u = user_id THEN grown ELSE h[u]]

\* _update_history truncating with [:10] in place of [-10:]
update_history_keeps_oldest(h, user_id, user_message, bot_response, now) ==
    LET created == IF user_id \in DOMAIN h THEN h[user_id] ELSE <<>>
        grown == Append(created, Turn(user_message, bot_response, now))
        kept == IF Len(grown) > 10 THEN SubSeq(grown, 1, 10) ELSE grown
    IN  [u \in DOMAIN h \cup {user_id} |-> IF u = user_id THEN kept ELSE h[u]]

\* LLMProcessor._update_history
update_history(h, user_id, user_message, bot_response, now) ==
    LET created == IF user_id \in DOMAIN h THEN h[user_id] ELSE <<>>
        grown == Append(created, Turn(user_message, bot_response, now))
        kept == IF Len(grown) > MAX_HISTORY THEN LastN(grown, MAX_HISTORY) ELSE grown
    IN  [u \in DOMAIN h \cup {user_id} |-> IF u = user_id THEN kept ELSE h[u]]

\* clear_history without the membership test of line 194: `del` of an absent
\* key raises KeyError
clear_history_unguarded(h, user_id) ==
    IF user_id \in DOMAIN h
    THEN [history |-> [u \in DOMAIN h \ {user_id} |-> h[u]], raised |-> "none"]
    ELSE [history |-> h, raised |-> "KeyError"]

\* LLMProcessor.clear_history: the map afterwards and the exception raised
clear_history(h, user_id) ==
    IF user_id \in DOMAIN h
    THEN [history |-> [u \in DOMAIN h \ {user_id} |-> h[u]], raised |-> "none"]
    ELSE [history |-> h, raised |-> "none"]

InitWith(credential) ==
    /\ enabled \in credential
    /\ hashseed \in Seeds
    /\ conversation_history = [u \in {} |-> <<>>]
    /\ task = [t \in Tasks |-> IdleTask]
    /\ posts = 0
    /\ warnings = 0
    /\ escaped = {}
    /\ calls = [u \in Users |-> 0]
    /\ appended = [u \in Users |-> <<>>]

\* LLMProcessor.__init__: enabled = bool(api_key), key present or absent
Init == InitWith(BOOLEAN)

(* ---------------------------------------------------------------------- *)
(* generate_response                                                       *)
(* ---------------------------------------------------------------------- *)

\* the `if not self.enabled` test left out
TakesRemotePathAlways(en) == TRUE

\* `if not self.enabled: return <fallback>`: the remote path is taken only
\* when the processor was built with a key
TakesRemotePath(en) == en

\* the variant that records the exchange after a fallback reply as well
HistoryAfterFallbackRecorded(h, user_id, message, reply) ==
    [u \in DOMAIN h \cup {user_id} |->
        IF u = user_id
        THEN LastN(Append(IF user_id \in DOMAIN h THEN h[user_id] ELSE <<>>,
                          [user |-> message, bot |-> reply, timestamp |-> "T1"]), 10)
        ELSE h[u]]

\* the history map after a reply produced by _fallback_response: the
\* fallback returns are not preceded by a call of _update_history
HistoryAfterFallback(h, user_id, message, reply) == h

\* the turn appended to the list read at line 104, before the request was
\* awaited, and the result stored back
RecordTurnFromSnapshot(t, bot_response, now) ==
    [u \in DOMAIN conversation_history \cup {task[t].user} |->
        IF u = task[t].user
        THEN LastN(Append(task[t].history,
                          [user |-> task[t].message, bot |-> bot_response,
                           timestamp |-> now]), 10)
        ELSE conversation_history[u]]

\* the turn appended to the list of every user that has one
RecordTurnForAll(t, bot_response, now) ==
    [u \in DOMAIN conversation_history \cup {task[t].user} |->
        LastN(Append(IF u \in DOMAIN conversation_history
                     THEN conversation_history[u] ELSE <<>>,
                     [user |-> task[t].message, bot |-> bot_response,
                      timestamp |-> now]), 10)]

\* self._update_history(user_id, message, bot_response) in task t
RecordTurn(t, bot_response, now) ==
    update_history(conversation_history, task[t].user, task[t].message,
                   bot_response, now)

Finished(t, path, reply) ==
    [task EXCEPT ![t].pc = "done", ![t].path = path, ![t].reply = reply]

\* entry of generate_response up to the first suspension (session.post)
generate_response(t, user_id, message, context) ==
    /\ task[t].pc = "idle"
    /\ calls' = [calls EXCEPT ![user_id] = @ + 1]
    /\ IF ~TakesRemotePath(enabled)
       THEN LET reply == fallback_response(hashseed, message)
            IN  /\ task' = [task EXCEPT ![t] =
                      [IdleTask EXCEPT !.pc = "done", !.op = "generate",
                                       !.user = user_id, !.message = message,
                                       !.context = context, !.path = "local",
                                       !.reply = reply]]
                /\ conversation_history' =
                      HistoryAfterFallback(conversation_history, user_id, message, reply)
                /\ posts' = posts
       ELSE LET history == HistoryOf(conversation_history, user_id)
            IN  /\ task' = [task EXCEPT ![t] =
                      [IdleTask EXCEPT !.pc = "post", !.op = "generate",
                                       !.user = user_id, !.message = message,
                                       !.context = context, !.history = history]]
                /\ conversation_history' = conversation_history
                /\ posts' = posts + 1
    /\ UNCHANGED <<enabled, hashseed, warnings, escaped, appended>>

\* the fallback return after a failed remote call
GenerateFallsBack(t) ==
    LET reply == fallback_response(hashseed, task[t].message)
    IN  /\ task' = Finished(t, "local", reply)
        /\ conversation_history' =
              HistoryAfterFallback(conversation_history, task[t].user,
                                   task[t].message, reply)
        /\ warnings' = warnings + 1
        /\ UNCHANGED <<enabled, hashseed, posts, escaped, calls, appended>>

\* the response head arrives: `if response.status == 200`
generate_status(t, status) ==
    /\ task[t].pc = "post"
    /\ task[t].op = "generate"
    /\ IF status = 200
       THEN /\ task' = [task EXCEPT ![t].pc = "json"]
            /\ UNCHANGED <<enabled, hashseed, conversation_history, posts, warnings,
                           escaped, calls, appended>>
       ELSE GenerateFallsBack(t)

\* asyncio.TimeoutError or any other Exception while awaiting the request or
\* its body
generate_except(t) ==
    /\ task[t].pc \in {"post", "json"}
    /\ task[t].op = "generate"
    /\ GenerateFallsBack(t)

\* `await response.json()` returns at time `now` (datetime.now()): a document without
\* choices[0].message.content raises inside the try block, a document with it
\* gives the reply
generate_body(t, body, now) ==
    /\ task[t].pc = "json"
    /\ task[t].op = "generate"
    /\ IF body.kind = "malformed"
       THEN GenerateFallsBack(t)
       ELSE LET bot_response == Strip(body.content)
            IN  /\ conversation_history' = RecordTurn(t, bot_response, now)
                /\ appended' = [appended EXCEPT ![task[t].user] =
                       Append(@, Turn(task[t].message, bot_response, now))]
                /\ task' = Finished(t, "remote", bot_response)
                /\ UNCHANGED <<enabled, hashseed, posts, warnings, escaped, calls>>

(* ---------------------------------------------------------------------- *)
(* analyze_intent                                                          *)
(* ---------------------------------------------------------------------- *)

\* The text of choices[0].message.content of the classification reply, as a
\* sequence of lexical pieces: the code fences the method removes, white
\* space, one JSON document, or other text.
Piece(kind, value) == [tok |-> kind, value |-> value]

FenceJson == Piece("fence_json", PyNone)
Fence == Piece("fence", PyNone)
Space == Piece("space", PyNone)
OtherText == Piece("text", PyNone)
Json(v) == Piece("json", v)

GoodDoc ==
    PyDict([intent |-> "question", sentiment |-> "positive", topic |-> "technical"])

BadEnumDoc ==
    PyDict([intent |-> "complaint", sentiment |-> "neutral", topic |-> "general"])

MissingFieldDoc == PyDict([intent |-> "help"])

AnalysisContents ==
    { <<Json(GoodDoc)>>,
      <<FenceJson, Space, Json(GoodDoc), Space, Fence, Space>>,
      <<Json(BadEnumDoc)>>,
      <<Json(MissingFieldDoc)>>,
      <<Json(PyList)>>,
      <<OtherText, Json(GoodDoc)>> }

\* content.strip() on the pieces
StripPieces(c) ==
    LET keep == {i \in 1..Len(c) : c[i].tok # "space"}
    IN  IF keep = {} THEN <<>>
        ELSE LET lo == CHOOSE i \in keep : \A j \in keep : i <= j
                 hi == CHOOSE i \in keep : \A j \in keep : j <= i
             IN  SubSeq(c, lo, hi)

\* content.replace(<piece>, "")
RemovePieces(c, kind) == SelectSeq(c, LAMBDA p : p.tok # kind)

\* json.loads: white space around one document is accepted, anything else
\* raises json.JSONDecodeError
json_loads(c) ==
    LET doc == RemovePieces(c, "space")
    IN  IF Len(doc) = 1 /\ doc[1].tok = "json"
        THEN [ok |-> TRUE, value |-> doc[1].value]
        ELSE [ok |-> FALSE, value |-> PyNone]

\* lines 54-56: strip, drop the fences, strip, decode
DecodeAnalysis(content) ==
    json_loads(StripPieces(RemovePieces(RemovePieces(StripPieces(content),
                                                     "fence_json"), "fence")))

analyze_intent(t, message) ==
    /\ task[t].pc = "idle"
    /\ IF ~TakesRemotePath(enabled)
       THEN /\ task' = [task EXCEPT ![t] =
                  [IdleTask EXCEPT !.pc = "done", !.op = "analyze",
                                   !.message = message, !.path = "local",
                                   !.analysis = fallback_analysis(message)]]
            /\ posts' = posts
       ELSE /\ task' = [task EXCEPT ![t] =
                  [IdleTask EXCEPT !.pc = "post", !.op = "analyze",
                                   !.message = message]]
            /\ posts' = posts + 1
    /\ UNCHANGED <<enabled, hashseed, conversation_history, warnings, escaped,
                   calls, appended>>

\* `return self._fallback_analysis(message)` after a logged failure
AnalyzeFallsBack(t) ==
    /\ task' = [task EXCEPT ![t].pc = "done", ![t].path = "local",
                            ![t].analysis = fallback_analysis(task[t].message)]
    /\ warnings' = warnings + 1
    /\ UNCHANGED <<enabled, hashseed, conversation_history, posts, escaped,
                   calls, appended>>

analyze_status(t, status) ==
    /\ task[t].pc = "post"
    /\ task[t].op = "analyze"
    /\ IF status = 200
       THEN /\ task' = [task EXCEPT ![t].pc = "json"]
            /\ UNCHANGED <<enabled, hashseed, conversation_history, posts, warnings,
                           escaped, calls, appended>>
       ELSE AnalyzeFallsBack(t)

analyze_except(t) ==
    /\ task[t].pc \in {"post", "json"}
    /\ task[t].op = "analyze"
    /\ AnalyzeFallsBack(t)

analyze_body(t, body) ==
    /\ task[t].pc = "json"
    /\ task[t].op = "analyze"
    /\ IF body.kind = "malformed"
       THEN AnalyzeFallsBack(t)
       ELSE LET decoded == DecodeAnalysis(body.content)
            IN  IF decoded.ok
                THEN /\ task' = [task EXCEPT ![t].pc = "done", ![t].path = "remote",
                                             ![t].analysis = decoded.value]
                     /\ UNCHANGED <<enabled, hashseed, conversation_history, posts,
                                    warnings, escaped, calls, appended>>
                ELSE AnalyzeFallsBack(t)

(* ---------------------------------------------------------------------- *)
(* clear_history, the end of a call                                        *)
(* ---------------------------------------------------------------------- *)

\* clear_command: self.llm.clear_history(user_id), then the reply is awaited
clear_command(t, user_id) ==
    LET r == clear_history(conversation_history, user_id)
    IN  /\ task[t].pc = "idle"
        /\ conversation_history' = r.history
        /\ escaped' = IF r.raised = "none" THEN escaped ELSE escaped \cup {r.raised}
        /\ appended' = [appended EXCEPT ![user_id] = <<>>]
        /\ task' = [task EXCEPT ![t] =
              [IdleTask EXCEPT !.pc = "done", !.op = "clear", !.user = user_id]]
        /\ UNCHANGED <<enabled, hashseed, posts, warnings, calls>>

\* the caller has taken the result; the coroutine is gone
Return(t) ==
    /\ task[t].pc = "done"
    /\ task' = [task EXCEPT ![t] = IdleTask]
    /\ UNCHANGED <<enabled, hashseed, conversation_history, posts, warnings, escaped,
                   calls, appended>>

(* ---------------------------------------------------------------------- *)
(* Specifications                                                          *)
(* ---------------------------------------------------------------------- *)

Statuses == {200, 500}

Malformed == [kind |-> "malformed", content |-> <<>>]

Document(c) == [kind |-> "document", content |-> c]

ReplyBodies == {Malformed} \cup {Document(c) : c \in ReplyContents}

AnalysisBodies == {Malformed} \cup {Document(c) : c \in AnalysisContents}

RECURSIVE SumOver(_, _)
SumOver(f, S) ==
    IF S = {} THEN 0
    ELSE LET x == CHOOSE y \in S : TRUE IN f[x] + SumOver(f, S \ {x})

TotalCalls == SumOver(calls, Users)

\* Spec: generate_response and clear_history, called from concurrent tasks
\* for two users, with every outcome of the remote call.
MayFail == warnings < MaxWarnings

Next ==
    \/ \E t \in Tasks, u \in Users, m \in Messages, c \in Contexts \ {EmptyStr} :
          TotalCalls < MaxCalls /\ generate_response(t, u, m, c)
    \/ \E t \in Tasks, s \in Statuses :
          (s = 200 \/ MayFail) /\ generate_status(t, s)
    \/ \E t \in Tasks : MayFail /\ generate_except(t)
    \/ \E t \in Tasks, b \in ReplyBodies, now \in Times :
          (b.kind = "document" \/ MayFail) /\ generate_body(t, b, now)
    \/ \E t \in Tasks, u \in Users : clear_command(t, u)
    \/ \E t \in Tasks : Return(t)

Spec == Init /\ [][Next]_vars

\* SpecClassify: analyze_intent on every text made of up to MaxParts parts.
Parts ==
    { <<"h","i">>,
      <<"H","E","L","P">>,
      <<"p","l","e","a","s","e">>,
      <<"?">>,
      <<"t","h","i","s"," ">>,
      <<"b","a","d">> }

RECURSIVE Composed(_)
Composed(n) ==
    IF n = 0 THEN {EmptyStr}
    ELSE Composed(n - 1) \cup {p \o m : p \in Parts, m \in Composed(n - 1)}

ComposedMessages == Composed(MaxParts)

ClassifyTasks == {"t1"}

InitClassify == InitWith(BOOLEAN)

NextClassify ==
    \/ \E t \in ClassifyTasks, m \in ComposedMessages :
          posts < MaxPosts /\ analyze_intent(t, m)
    \/ \E t \in ClassifyTasks, s \in Statuses :
          (s = 200 \/ MayFail) /\ analyze_status(t, s)
    \/ \E t \in ClassifyTasks : MayFail /\ analyze_except(t)
    \/ \E t \in ClassifyTasks, b \in AnalysisBodies :
          ((b.kind = "document" /\ DecodeAnalysis(b.content).ok) \/ MayFail)
          /\ analyze_body(t, b)
    \/ \E t \in ClassifyTasks : Return(t)

SpecClassify == InitClassify /\ [][NextClassify]_vars

\* the k-th generate_response call of a user sends the text "msg k"
Digits == <<"0","1","2","3","4","5","6","7","8","9">>

RECURSIVE Decimal(_)
Decimal(n) ==
    IF n < 10 THEN <<Digits[n + 1]>>
    ELSE Decimal(n \div 10) \o <<Digits[(n % 10) + 1]>>

NumberedMessage(n) == <<"m","s","g"," ">> \o Decimal(n)

\* SpecOffline: a processor built without a key.
InitOffline == InitWith({FALSE})

NextOffline ==
    \/ \E t \in Tasks, u \in Users, c \in Contexts :
          /\ calls[u] < OfflineCalls
          /\ generate_response(t, u, NumberedMessage(calls[u] + 1), c)
    \/ \E t \in Tasks, m \in Messages : analyze_intent(t, m)
    \/ \E t \in Tasks, u \in Users : clear_command(t, u)
    \/ \E t \in Tasks : Return(t)

SpecOffline == InitOffline /\ [][NextOffline]_vars

\* SpecLong: a processor built with a key and runs long enough to fill the
\* history, one call at a time.
LongReplies == {Document(<<"O","k">>)}

LongTasks == {"t1"}

InitLong == InitWith({TRUE})

NextLong ==
    \/ \E t \in LongTasks, u \in Users :
          /\ TotalCalls < LongCalls
          /\ generate_response(t, u, NumberedMessage(calls[u] + 1), EmptyStr)
    \/ \E t \in LongTasks, s \in Statuses :
          (s = 200 \/ MayFail) /\ generate_status(t, s)
    \/ \E t \in LongTasks : MayFail /\ generate_except(t)
    \/ \E t \in LongTasks, b \in LongReplies, now \in Times : generate_body(t, b, now)
    \/ \E t \in LongTasks, u \in Users : clear_command(t, u)
    \/ \E t \in LongTasks : Return(t)

SpecLong == InitLong /\ [][NextLong]_vars

\* SpecRace: two calls of one user in flight at a time, the remote call
\* answering, completing in either order.
RaceUsers == {"u1"}

NextRace ==
    \/ \E t \in Tasks, u \in RaceUsers :
          /\ TotalCalls < RaceCalls
          /\ generate_response(t, u, NumberedMessage(calls[u] + 1), EmptyStr)
    \/ \E t \in Tasks : generate_status(t, 200)
    \/ \E t \in Tasks, b \in LongReplies, now \in Times : generate_body(t, b, now)
    \/ \E t \in Tasks : Return(t)

SpecRace == InitLong /\ [][NextRace]_vars

(* ---------------------------------------------------------------------- *)
(* Properties                                                              *)
(* ---------------------------------------------------------------------- *)

Min(a, b) == IF a <= b THEN a ELSE b

Quiescent == \A t \in Tasks : task[t].pc \in {"idle", "done"}

HistoryIsMostRecentAppends ==
    \A u \in Users :
        LET h == HistoryOf(conversation_history, u)
            a == appended[u]
            N == Len(a)
        IN  /\ Len(h) = Min(N, 10)
            /\ \A i \in 1..Len(h) : h[i] = a[N - Len(h) + i]

\* eleven appends without a clear, after an earlier clear of the same user
EleventhAppendStored ==
    \E u \in Users :
        /\ Len(appended[u]) = 11
        /\ calls[u] > 11
        /\ Len(HistoryOf(conversation_history, u)) = 10

\* C3: from any state, clear_history(user_id) leaves the user without a
\* history entry (size 0) and raises nothing, also when the user had no
\* entry, and a second call right after it leaves the whole map as the first
\* call left it.
ClearRemovesAndIsIdempotent ==
    [][\A t \in Tasks, u \in Users :
          clear_command(t, u) =>
              /\ u \notin DOMAIN conversation_history'
              /\ SizeOf(conversation_history', u) = 0
              /\ escaped' = escaped
              /\ clear_history(conversation_history', u).history = conversation_history'
              /\ clear_history(conversation_history', u).raised = "none"]_vars

\* a clear has removed a history that a call still in flight had read as
\* non-empty
ClearedNonEmptyHistory ==
    \E t1, t2 \in Tasks :
        /\ task[t1].op = "clear" /\ task[t1].pc = "done"
        /\ task[t2].op = "generate" /\ task[t2].pc \in {"post", "json"}
        /\ task[t2].user = task[t1].user
        /\ Len(task[t2].history) > 0
        /\ task[t1].user \notin DOMAIN conversation_history
        /\ escaped = {}

\* C4: the local classification is first-match-wins with the priority
\* greeting > help > request > question > chitchat: the intent is the
\* highest-priority category that matches the lower-cased text, and a text
\* with "?" is a question exactly when no greeting, help or request keyword
\* matches.
Priority == <<"greeting", "help", "request", "question", "chitchat">>

CategoryMatches(cat, message) ==
    CASE cat = "greeting" -> \E w \in GreetingWords : Contains(Lower(message), w)
      [] cat = "help" -> \E w \in HelpWords : Contains(Lower(message), w)
      [] cat = "request" -> \E w \in RequestWords : Contains(Lower(message), w)
      [] cat = "question" -> Contains(Lower(message), <<"?">>)
      [] cat = "chitchat" -> TRUE

HighestPriority(message) ==
    Priority[CHOOSE i \in 1..Len(Priority) :
                /\ CategoryMatches(Priority[i], message)
                /\ \A j \in 1..(i - 1) : ~CategoryMatches(Priority[j], message)]

LocalIntentFollowsPriority ==
    \A t \in Tasks :
        (task[t].pc = "done" /\ task[t].op = "analyze" /\ task[t].path = "local") =>
            LET m == task[t].message
                intent == task[t].analysis.members.intent
            IN  /\ intent = HighestPriority(m)
                /\ Contains(m, <<"?">>) =>
                      (intent = "question" <=>
                          \A i \in 1..3 : ~CategoryMatches(Priority[i], m))

\* a text with "?" and a request keyword, and none of greeting or help, was
\* classified locally after a failed remote call
RequestBeatsQuestion ==
    \E t \in Tasks :
        /\ task[t].pc = "done" /\ task[t].op = "analyze" /\ task[t].path = "local"
        /\ enabled
        /\ Contains(task[t].message, <<"?">>)
        /\ CategoryMatches("request", task[t].message)
        /\ ~CategoryMatches("greeting", task[t].message)
        /\ ~CategoryMatches("help", task[t].message)
        /\ task[t].analysis.members.intent = "request"

\* C5: analyze_intent never fails and, whatever the remote call does, returns
\* an IntentResult: a record with exactly the fields intent, sentiment and
\* topic, each within its enumeration.
IsIntentResult(v) ==
    /\ v.kind = "dict"
    /\ DOMAIN v.members = {"intent", "sentiment", "topic"}
    /\ v.members.intent \in Intents
    /\ v.members.sentiment \in Sentiments
    /\ v.members.topic \in Topics

AnalyzeReturnsIntentResult ==
    /\ escaped = {}
    /\ \A t \in Tasks :
          (task[t].pc = "done" /\ task[t].op = "analyze") =>
              IsIntentResult(task[t].analysis)

\* C6: generate_response never fails and returns a text of length at least
\* 1, whatever the remote call does, a 200 reply with empty or white-space
\* content included.
RespondReturnsNonEmpty ==
    /\ escaped = {}
    /\ \A t \in Tasks :
          (task[t].pc = "done" /\ task[t].op = "generate") => Len(task[t].reply) >= 1

\* C7: built without a credential, no analyze_intent or generate_response
\* call issues a network request, and the result of each depends on the
\* message text alone: equal texts give equal results for any user, context
\* hint and stored history.
OfflineIsLocalAndDeterministic ==
    ~enabled =>
        /\ posts = 0
        /\ \A t \in Tasks : task[t].pc \in {"idle", "done"}
        /\ \A t1, t2 \in Tasks :
              ( /\ task[t1].pc = "done" /\ task[t2].pc = "done"
                /\ task[t1].op = task[t2].op
                /\ task[t1].op \in {"analyze", "generate"}
                /\ task[t1].message = task[t2].message ) =>
                  /\ task[t1].reply = task[t2].reply
                  /\ task[t1].analysis = task[t2].analysis

\* two users were answered for the same text under different context hints
SameTextTwoUsers ==
    \E t1, t2 \in Tasks :
        /\ ~enabled
        /\ task[t1].pc = "done" /\ task[t2].pc = "done"
        /\ task[t1].op = "generate" /\ task[t2].op = "generate"
        /\ task[t1].message = task[t2].message
        /\ task[t1].user # task[t2].user
        /\ task[t1].context # task[t2].context
        /\ Len(task[t1].reply) > 0

\* C8, as stated: with the credential absent, 12 sequential generate_response
\* calls of a user leave exactly 10 stored turns, turns 3 to 12 in order.
TwelveOfflineCallsKeepTen ==
    \A u \in Users :
        (~enabled /\ calls[u] = 12 /\ Quiescent) =>
            LET h == HistoryOf(conversation_history, u)
            IN  /\ Len(h) = 10
                /\ \A i \in 1..Len(h) :
                      /\ h[i].user = NumberedMessage(i + 2)
                      /\ h[i].bot = fallback_response(hashseed, NumberedMessage(i + 2))

\* C8, amended: with the credential absent, none of the 12 sequential calls
\* stores a turn: the user's history has 0 turns after each of them.
TwelveOfflineCallsStoreNothing ==
    \A u \in Users :
        (~enabled /\ calls[u] <= 12) =>
            /\ SizeOf(conversation_history, u) = 0
            /\ u \notin DOMAIN conversation_history

\* the twelfth call of a user has returned
TwelveOfflineCallsDone ==
    \E u \in Users, t \in Tasks :
        /\ ~enabled
        /\ calls[u] = 12
        /\ task[t].pc = "done" /\ task[t].op = "generate" /\ task[t].user = u
        /\ task[t].message = NumberedMessage(12)

\* C9: generate_response appends to the caller's history on the remote
\* success path only: a call ending with a 200 reply appends exactly one turn
\* (message, reply), a call ending on the fallback path leaves the whole map
\* unchanged, and no step of a call changes another user's history.
RespondRecordsOnlyOnSuccess ==
    [][\A t \in Tasks :
          (task'[t] # task[t] /\ task'[t].op = "generate") =>
              IF task'[t].pc = "done" /\ task'[t].path = "remote"
              THEN LET u == task'[t].user
                       old == HistoryOf(conversation_history, u)
                       new == HistoryOf(conversation_history', u)
                   IN  /\ u \in DOMAIN conversation_history'
                       /\ Len(new) = Min(Len(old) + 1, 10)
                       /\ new[Len(new)].user = task'[t].message
                       /\ new[Len(new)].bot = task'[t].reply
                       /\ \A i \in 1..(Len(new) - 1) :
                             new[i] = old[Len(old) - (Len(new) - 1) + i]
                       /\ DOMAIN conversation_history' =
                             DOMAIN conversation_history \cup {u}
                       /\ \A v \in DOMAIN conversation_history \ {u} :
                             conversation_history'[v] = conversation_history[v]
              ELSE conversation_history' = conversation_history]_vars

\* a call of one user has ended with a 200 reply and recorded its turn while
\* another user has a history
RemoteSuccessBesideOtherUser ==
    \E t \in Tasks, v \in Users :
        /\ task[t].pc = "done" /\ task[t].op = "generate" /\ task[t].path = "remote"
        /\ v # task[t].user
        /\ v \in DOMAIN conversation_history
        /\ task[t].user \in DOMAIN conversation_history

\* C10: with several generate_response calls of one user in flight, no
\* update is lost: once all have finished, the stored history is the last
\* min(k, 10) turns of the k calls that ended with a 200 reply, in the order
\* in which they ended.
NoLostUpdate ==
    Quiescent =>
        \A u \in Users :
            LET k == Len(appended[u])
            IN  HistoryOf(conversation_history, u) =
                  SubSeq(appended[u], k - Min(k, 10) + 1, k)

\* eleven calls have ended, the last of them having read the history before
\* an earlier one ended
OverlappingCallsFinished ==
    \E u \in Users, t \in Tasks :
        /\ Quiescent
        /\ Len(appended[u]) = 11
        /\ task[t].pc = "done" /\ task[t].path = "remote" /\ task[t].user = u
        /\ appended[u][11].user = task[t].message
        /\ task[t].history # SubSeq(appended[u], 1, 10)

====
